---- MODULE Spec2Model ----
(***************************************************************************)
(* rudiment: a CRUD resource manager (src/rudiment.js, third revision,     *)
(* lines 672-1209) over the RethinkDB adapter (src/lib/rethinkdb.js).      *)
(*                                                                         *)
(* A document is a function from property names to values.  The table is   *)
(* a set of documents, each carrying the primary key "id".  Every public   *)
(* operation is a promise chain; each step of a chain that reaches the     *)
(* database is one action, so that other invocations can interleave        *)
(* between two database calls of the same invocation.                      *)
(***************************************************************************)
EXTENDS Integers, Sequences, FiniteSets, TLC

\* ------------------------------------------------------------------ bounds
MaxCreates == 2          \* creates started per behaviour
NProcs == 2              \* invocation slots
MaxManagers == 2         \* managers constructed in one process

\* --------------------------------------------------------------- constants
None == ""               \* an option that was not given (falsy in JS)
IdProp == "id"           \* primary key property of the rethinkdb adapter
ForeignId == 10          \* a primary key chosen by a caller, never generated
NaNArg == 99             \* an index argument that parseInt maps to NaN
NoMax == -1              \* "no index value fetched yet"

Procs == 1..NProcs

\* ---------------------------------------------------------------- documents
EmptyDoc == [p \in {} |-> 0]
NullDoc == [null |-> 1]                      \* JS null / undefined document

Has(doc, p) == p \in DOMAIN doc
Without(doc, S) == [p \in (DOMAIN doc) \ S |-> doc[p]]
With(doc, p, v) == [q \in (DOMAIN doc) \cup {p} |-> IF q = p THEN v ELSE doc[q]]
\* Object merge: every property of upd written over doc
Assign(doc, upd) ==
  [q \in (DOMAIN doc) \cup (DOMAIN upd) |-> IF q \in DOMAIN upd THEN upd[q] ELSE doc[q]]

SeqToSet(s) == {s[i] : i \in 1..Len(s)}

\* ------------------------------------------------------------ configuration
\* Schema predicates a caller may pass (README: custom predicate functions)
ApplyPred(name, doc) ==
  CASE name = "P1" -> Has(doc, "a") /\ doc["a"] >= 1
    [] name = "P2" -> Has(doc, "x")
    [] OTHER -> FALSE

\* Map functions a caller may pass as opts.in / opts.out
MapFn(name, doc) ==
  CASE name = "tag"  -> With(doc, "x", 1)
    [] name = "hide" -> Without(doc, {"a"})
    [] name = "noid" -> Without(doc, {IdProp})
    [] OTHER -> doc

\* mapOrSelf: typeof map === 'function' ? (map(val) || val) : val
mapOrSelf(name, doc) == IF name # None THEN MapFn(name, doc) ELSE doc

NoProps == <<"*">>       \* this._props undefined

Configs == {
  [schema |-> <<>>, props |-> NoProps, key |-> "k", index |-> "uid",
   uniq |-> <<>>, in |-> None, out |-> None],
  [schema |-> <<"P1">>, props |-> NoProps, key |-> "k", index |-> None,
   uniq |-> <<>>, in |-> None, out |-> None],
  [schema |-> <<"P1", "P2">>, props |-> NoProps, key |-> "k", index |-> "uid",
   uniq |-> <<>>, in |-> None, out |-> None],
  [schema |-> <<"P1">>, props |-> <<"k", "a", "uid">>, key |-> "k", index |-> "uid",
   uniq |-> <<>>, in |-> None, out |-> "tag"],
  [schema |-> <<"P1">>, props |-> <<"k", "a">>, key |-> None, index |-> "uid",
   uniq |-> <<"k">>, in |-> "tag", out |-> None],
  [schema |-> <<"P2">>, props |-> NoProps, key |-> "k", index |-> "uid",
   uniq |-> <<>>, in |-> None, out |-> "noid"],
  [schema |-> <<"P2">>, props |-> NoProps, key |-> "k", index |-> "uid",
   uniq |-> <<>>, in |-> None, out |-> "hide"],
  [schema |-> <<"P1">>, props |-> NoProps, key |-> None, index |-> None,
   uniq |-> <<>>, in |-> None, out |-> None]
}

\* Documents callers pass to create
CreateDocs == {
  [k |-> 1, a |-> 1],
  [k |-> 1, a |-> 2, uid |-> 5],
  [k |-> 2, a |-> 0, x |-> 1],
  [k |-> 2, a |-> 0],
  [a |-> 1],
  [id |-> ForeignId, k |-> 2, a |-> 1]
}

\* Documents callers pass as the updates of update / updateByKey / updateByIndex
UpdateDocs == {
  [a |-> 2, x |-> 1],
  [a |-> 0],
  [k |-> 2, a |-> 2],
  [id |-> ForeignId, k |-> 2, uid |-> 7, a |-> 2]
}

IdArgs == 1..MaxCreates \cup {ForeignId}
KeyArgs == {0, 1, 2}
IndexArgs == {0, 1, NaNArg}
\* Property constraints callers pass to find
FindArgs == {EmptyDoc, [a |-> 1], [k |-> 1]}

VARIABLES cfg, inited, store, nextId, calls, created, removed, orphaned, gone

\* A process that constructs several managers: the managers in the order of
\* their construction, the manager the functions of the shared dbType.api
\* object are bound to (0 before the first construction), the tables behind
\* the db handles, and the last adapter call made
VARIABLES mgrs, dbApi, tables, last

vars == <<dbApi, mgrs, tables, last,
          cfg, inited, store, nextId, calls, created, removed, orphaned, gone>>

\* db handles and the options managers are constructed with
TableNames == {"t1", "t2"}

ManagerOpts == {
  [db |-> "t1", key |-> "k", index |-> "uid"],
  [db |-> "t2", key |-> "name", index |-> "n"],
  [db |-> "t2", key |-> "k", index |-> None]
}

\* documents handed to the adapter's create
ManagerDocs == {[a |-> 1], [a |-> 2]}

NoCall == [by |-> 0, fn |-> None, db |-> None, key |-> None, index |-> None]

\* a unique list that is the uniq option, or the key alone without one
UniqOptionOrKey(c) == IF c.uniq # <<>> THEN c.uniq ELSE <<c.key>>

\* this._uniq: [id, key, index].concat(opts.uniq).filter(truthy)
Uniq(c) == SelectSeq(<<IdProp, c.key, c.index>> \o c.uniq, LAMBDA x : x # None)
UniqSet == SeqToSet(Uniq(cfg))

\* ------------------------------------------------------------ pure helpers
\* pick(obj, keys): copy of obj with only the picked keys that are defined
pick(obj, keys) == [p \in (DOMAIN obj) \cap SeqToSet(keys) |-> obj[p]]

\* clean that stops after dropping one extraneous property
cleanOnePass(doc) ==
  IF cfg.props = NoProps \/ (DOMAIN doc) \ SeqToSet(cfg.props) = {} THEN doc
  ELSE Without(doc, {CHOOSE q \in (DOMAIN doc) \ SeqToSet(cfg.props) : TRUE})

\* clean that copies every whitelisted property, owned by doc or not
cleanSynthesize(doc) ==
  IF cfg.props = NoProps THEN doc
  ELSE [p \in SeqToSet(cfg.props) |-> IF Has(doc, p) THEN doc[p] ELSE 0]

\* clean(doc): whitelisted properties that doc owns; doc itself without a whitelist
clean(doc) ==
  IF cfg.props = NoProps THEN doc
  ELSE [p \in (DOMAIN doc) \cap SeqToSet(cfg.props) |-> doc[p]]

\* Array.prototype.find over this._schema: index of the first predicate that
\* accepts doc, 0 (undefined) when there is none
RECURSIVE FindSchema(_, _, _)
FindSchema(schema, doc, i) ==
  IF i > Len(schema) THEN 0
  ELSE IF ApplyPred(schema[i], doc) THEN i
  ELSE FindSchema(schema, doc, i + 1)

\* isValid that consults the first predicate only
isValidFirstOnly(doc) == Len(cfg.schema) > 0 /\ ApplyPred(cfg.schema[1], doc)

\* isValid that accepts every document
isValidAlways(doc) == TRUE

\* isValid(doc): !!this._schema.find(schemaFn => schemaFn(doc))
isValid(doc) == FindSchema(cfg.schema, doc, 1) # 0

\* ---------------------------------------------------------- database table
\* a filter that looks at which properties a document has, not at their values
dbFilterByPresence(s, props) == {d \in s : \A p \in DOMAIN props : Has(d, p)}

\* table.filter(props): documents equal to props on every property of props
dbFilter(s, props) ==
  {d \in s : \A p \in DOMAIN props : Has(d, p) /\ d[p] = props[p]}

\* table.get(id)
dbGet(s, id) ==
  IF \E d \in s : d[IdProp] = id THEN CHOOSE d \in s : d[IdProp] = id ELSE NullDoc

\* an adapter that reports every document admissible
dbIsAdmissibleAlways(s, props) == TRUE

\* a table with a uniqueness constraint on the unique properties: an insert
\* that repeats a stored value is refused
dbInsertConstrained(s, doc, id) ==
  IF \E d \in s : \E u \in UniqSet : Has(d, u) /\ Has(doc, u) /\ d[u] = doc[u] THEN s
  ELSE IF Has(doc, IdProp) THEN s \cup {doc}
  ELSE s \cup {With(doc, IdProp, id)}

\* a table with a uniqueness constraint on the index property alone
dbInsertIndexUnique(s, doc, id) ==
  IF \E d \in s : Has(d, cfg.index) /\ Has(doc, cfg.index) /\ d[cfg.index] = doc[cfg.index]
    THEN s
  ELSE IF Has(doc, IdProp) THEN s \cup {doc}
  ELSE s \cup {With(doc, IdProp, id)}

\* table.insert(doc): a document without a primary key is stored under the
\* generated key id; one that carries its own is stored under it when that
\* key is free and refused otherwise
dbInsert(s, doc, id) ==
  IF Has(doc, IdProp)
    THEN IF dbGet(s, doc[IdProp]) = NullDoc THEN s \cup {doc} ELSE s
    ELSE s \cup {With(doc, IdProp, id)}

\* api.isAdmissible(doc, props): filter(props) is empty
dbIsAdmissible(s, props) == dbFilter(s, props) = {}

\* getNextIndex that starts at 1 on an empty table
dbGetNextIndexFromOne(s) ==
  LET ixd == {d \in s : Has(d, cfg.index)}
  IN IF ixd = {} THEN 1
     ELSE (CHOOSE d \in ixd : \A e \in ixd : e[cfg.index] <= d[cfg.index])[cfg.index] + 1

\* getNextIndex that returns the greatest stored index itself
dbGetNextIndexNoIncrement(s) ==
  LET ixd == {d \in s : Has(d, cfg.index)}
  IN IF ixd = {} THEN 0
     ELSE (CHOOSE d \in ixd : \A e \in ixd : e[cfg.index] <= d[cfg.index])[cfg.index]

\* api.getNextIndex: orderBy({index}).nth(-1).default(null), then doc[index] + 1 or 0
dbGetNextIndex(s) ==
  LET ixd == {d \in s : Has(d, cfg.index)}
  IN IF ixd = {} THEN 0
     ELSE (CHOOSE d \in ixd : \A e \in ixd : e[cfg.index] <= d[cfg.index])[cfg.index] + 1

\* table.get(id).update(doc): merge doc into the row; a changed primary key
\* is refused by the database, a missing row is skipped
dbUpdate(s, id, doc) ==
  IF dbGet(s, id) = NullDoc THEN s
  ELSE IF Has(doc, IdProp) /\ doc[IdProp] # id THEN s
  ELSE (s \ {dbGet(s, id)}) \cup {Assign(dbGet(s, id), doc)}

\* a delete that reports success and removes nothing
dbDeleteNothing(s, id) == s

\* a delete that empties the table when the row exists
dbDeleteAll(s, id) == IF dbGet(s, id) = NullDoc THEN s ELSE {}

\* table.get(id).delete()
dbDelete(s, id) == s \ {dbGet(s, id)}

\* -------------------------------------------------------- resource manager
\* isAdmissible without the validity gate
isAdmissibleUngated(doc, s) ==
  IF DOMAIN pick(doc, Uniq(cfg)) = {} THEN TRUE
  ELSE dbIsAdmissible(s, pick(doc, Uniq(cfg)))

\* isAdmissible(doc): the value the promise resolves with
isAdmissible(doc, s) ==
  IF ~isValid(doc) THEN FALSE
  ELSE IF DOMAIN pick(doc, Uniq(cfg)) = {} THEN TRUE
  ELSE dbIsAdmissible(s, pick(doc, Uniq(cfg)))

\* isAdmissible that queries the adapter before it knows the document valid
AdmissibleQueriesUnchecked(doc) == DOMAIN pick(doc, Uniq(cfg)) # {}

\* isAdmissible(doc): whether the adapter is queried
AdmissibleQueries(doc) == isValid(doc) /\ DOMAIN pick(doc, Uniq(cfg)) # {}

\* create that forgets to clean the document
PrepareDocUncleaned(doc) ==
  IF cfg.index # None THEN Without(doc, {cfg.index}) ELSE doc

\* create, second callback: doc = clean(doc); delete doc[index]
PrepareDoc(doc) ==
  IF cfg.index # None THEN Without(clean(doc), {cfg.index}) ELSE clean(doc)

\* create that never assigns the fetched index
AssignIndexSkip(doc, max) == doc

\* create, third callback: if (index && typeof max === 'number') doc[index] = max
AssignIndex(doc, max) ==
  IF cfg.index # None /\ max \in Nat THEN With(doc, cfg.index, max) ELSE doc

\* an open patch: every property of updates is written
MergeUpdatesOpen(doc, updates) == Assign(doc, updates)

\* _updateDoc: copy from updates every property the document already has
MergeUpdates(doc, updates) ==
  [p \in DOMAIN doc |-> IF Has(updates, p) THEN updates[p] ELSE doc[p]]

\* _updateDoc that leaves the unique properties in the document
StripNothing(doc) == doc

\* _updateDoc: this._uniq.forEach(uniq => delete doc[uniq])
StripUniq(doc) == Without(doc, UniqSet)

\* _updateDoc that hands the stripped document over without cleaning it
UpdatePayloadUncleaned(doc, updates) ==
  StripUniq(MergeUpdates(doc, mapOrSelf(cfg.in, updates)))

\* _updateDoc: the document handed to api.update
UpdatePayload(doc, updates) ==
  clean(StripUniq(MergeUpdates(doc, mapOrSelf(cfg.in, updates))))

\* _propIndex that does not look at the configured index property
propIndexOkUnconfigured(index) == index # NaNArg

\* _propIndex: parseInt(index, 10), null when not finite or no index configured
propIndexOk(index) == cfg.index # None /\ index # NaNArg

\* ------------------------------------------------------------- invocations
Idle ==
  [op |-> "none", pc |-> "idle", input |-> NullDoc, arg |-> 0, doc |-> NullDoc,
   cur |-> NullDoc, adm |-> FALSE, max |-> NoMax, target |-> 0, log |-> <<>>,
   outcome |-> "none", err |-> None, value |-> NullDoc, docs |-> {}, before |-> {},
   ret |-> "none", method |-> None, http |-> <<>>]

Start(op, pc, input, arg, doc) ==
  [Idle EXCEPT !.op = op, !.pc = pc, !.input = input, !.arg = arg, !.doc = doc,
               !.before = store]

Reject(c, err) == [c EXCEPT !.pc = "done", !.outcome = "rejected", !.err = err]
Resolve(c, val) == [c EXCEPT !.pc = "done", !.outcome = "resolved", !.value = val]
Logged(c, what) == [c EXCEPT !.log = Append(c.log, what)]

AllIdle == \A q \in Procs : calls[q].pc = "idle"

Init ==
  /\ cfg \in Configs
  /\ inited = FALSE
  /\ store = {}
  /\ nextId = 1
  /\ calls = [p \in Procs |-> Idle]
  /\ created = <<>>
  /\ removed = FALSE
  /\ orphaned = FALSE
  /\ gone = {}
  /\ mgrs = <<>>
  /\ dbApi = 0
  /\ tables = [t \in TableNames |-> {}]
  /\ last = NoCall

\* api.init() settles (this._init)
InitResolve ==
  /\ ~inited
  /\ inited' = TRUE
  /\ UNCHANGED <<dbApi, mgrs, tables, last, cfg, store, nextId, calls, created, removed, orphaned, gone>>

\* create(doc): doc = this._in_map(doc); the rest waits for this._init
BeginCreate(p, d) ==
  /\ AllIdle
  /\ nextId <= MaxCreates
  /\ Has(d, IdProp) => d[IdProp] = ForeignId \/ d[IdProp] < nextId
  /\ calls' = [calls EXCEPT ![p] = Start("create", "c_check", d, 0, mapOrSelf(cfg.in, d))]
  /\ UNCHANGED <<dbApi, mgrs, tables, last, cfg, inited, store, nextId, created, removed, orphaned, gone>>

InitSettledAlways == TRUE

\* a chain on a promise whose callbacks never run
InitSettledNever == FALSE

\* this._init.then(...): the callbacks chained on the promise of api.init()
\* run once it has resolved
InitSettled == inited

\* create, first callback: isAdmissible(doc)
CreateCheck(p) ==
  LET c == calls[p] IN
  /\ c.pc = "c_check"
  /\ InitSettled
  /\ calls' = [calls EXCEPT ![p] =
       [(IF AdmissibleQueries(c.doc) THEN Logged(c, "isAdmissible") ELSE c)
          EXCEPT !.pc = "c_alloc", !.adm = isAdmissible(c.doc, store)]]
  /\ UNCHANGED <<dbApi, mgrs, tables, last, cfg, inited, store, nextId, created, removed, orphaned, gone>>

\* a gate that names the reason: one error for an invalid document, another
\* for a collision
GateFailureByKind(c) ==
  Reject(c, IF ~isValid(c.doc) THEN "Document not valid" ELSE "Document not admissible")

\* create, second callback: if (!admissible) throw 'Document not admissible'
GateFailure(c) == Reject(c, "Document not admissible")

\* create, second callback: throw when not admissible, clean, getNextIndex()
CreateAlloc(p) ==
  LET c == calls[p] IN
  /\ c.pc = "c_alloc"
  /\ calls' = [calls EXCEPT ![p] =
       IF ~c.adm THEN GateFailure(c)
       ELSE IF cfg.index = None
         THEN Reject([c EXCEPT !.doc = PrepareDoc(c.doc)], "No auto-indexing key specified")
       ELSE [Logged(c, "getNextIndex") EXCEPT
               !.pc = "c_insert", !.doc = PrepareDoc(c.doc), !.max = dbGetNextIndex(store)]]
  /\ UNCHANGED <<dbApi, mgrs, tables, last, cfg, inited, store, nextId, created, removed, orphaned, gone>>

\* a create that hands on whatever the adapter returned
CreateSettleUnchecked(c, doc) == Resolve(c, doc)

\* create, last callback: if (!doc) throw 'Document not created'; return doc
CreateSettle(c, doc) ==
  IF doc = NullDoc THEN Reject(c, "Document not created") ELSE Resolve(c, doc)

\* create, third callback: assign the index, api.create(doc) inserts.  A
\* document that carries its own primary key gets no generated key: either
\* the insert result has no generated_keys and reading its length throws, or
\* it has an empty one and api.create returns null.
CreateInsert(p) ==
  LET c == calls[p]
      doc == AssignIndex(c.doc, c.max)
      sent == [Logged(c, "insert") EXCEPT !.doc = doc]
  IN
  /\ c.pc = "c_insert"
  /\ store' = dbInsert(store, doc, nextId)
  /\ IF Has(doc, IdProp)
       THEN /\ nextId' = nextId
            /\ orphaned' = (orphaned \/ dbGet(store, doc[IdProp]) = NullDoc)
            /\ \E r \in {"threw", "null"} :
                 calls' = [calls EXCEPT ![p] =
                   IF r = "threw" THEN Reject([sent EXCEPT !.ret = r], "TypeError")
                   ELSE CreateSettle([sent EXCEPT !.ret = r], NullDoc)]
       ELSE /\ nextId' = nextId + 1
            /\ orphaned' = orphaned
            /\ calls' = [calls EXCEPT ![p] =
                 [sent EXCEPT !.pc = "c_readback", !.target = nextId]]
  /\ gone' = IF Has(doc, IdProp) THEN gone \ {doc[IdProp]} ELSE gone
  /\ UNCHANGED <<dbApi, mgrs, tables, last, cfg, inited, created, removed>>

\* api.create: that.read(generated_keys[0]), then _readDoc
CreateReadback(p) ==
  LET c == calls[p]
      d == dbGet(store, c.target)
  IN
  /\ c.pc = "c_readback"
  /\ IF d = NullDoc
       THEN /\ calls' = [calls EXCEPT ![p] =
                 Reject([Logged(c, "read") EXCEPT !.ret = "threw"], "Document not found")]
            /\ created' = created
       ELSE /\ calls' = [calls EXCEPT ![p] =
                 CreateSettle([Logged(c, "read") EXCEPT !.ret = "doc"], mapOrSelf(cfg.out, d))]
            /\ created' = Append(created, c.max)
  /\ UNCHANGED <<dbApi, mgrs, tables, last, cfg, inited, store, nextId, removed, orphaned, gone>>

\* update(id, updates): this.read(id) is issued at once
BeginUpdate(p, id, u) ==
  /\ AllIdle
  /\ calls' = [calls EXCEPT ![p] = Start("update", "u_read", u, id, NullDoc)]
  /\ UNCHANGED <<dbApi, mgrs, tables, last, cfg, inited, store, nextId, created, removed, orphaned, gone>>

\* updateByKey(key, updates): rejects without a key property or with a falsy key
BeginUpdateByKey(p, key, u) ==
  /\ AllIdle
  /\ calls' = [calls EXCEPT ![p] =
       IF cfg.key = None \/ key = 0
         THEN Reject(Start("updateByKey", "idle", u, key, NullDoc), "No unique key specified")
         ELSE Start("updateByKey", "u_read", u, key, NullDoc)]
  /\ UNCHANGED <<dbApi, mgrs, tables, last, cfg, inited, store, nextId, created, removed, orphaned, gone>>

\* updateByIndex(index, updates): readByIndex rejects when _propIndex is null
BeginUpdateByIndex(p, index, u) ==
  /\ AllIdle
  /\ calls' = [calls EXCEPT ![p] =
       IF ~propIndexOk(index)
         THEN Reject(Start("updateByIndex", "idle", u, index, NullDoc),
                     "No auto-indexing key specified")
         ELSE Start("updateByIndex", "u_read", u, index, NullDoc)]
  /\ UNCHANGED <<dbApi, mgrs, tables, last, cfg, inited, store, nextId, created, removed, orphaned, gone>>

\* The documents a read step of invocation c can obtain: table.get(id) for
\* read, docs[0] of table.filter(props) for readByKey / readByIndex (the
\* order of a filter result is the database's choice)
ReadCandidates(c) ==
  CASE c.op \in {"update", "read"} -> {dbGet(store, c.arg)}
    [] c.op \in {"updateByKey", "readByKey", "deleteByKey"} ->
         IF dbFilter(store, [q \in {cfg.key} |-> c.arg]) = {} THEN {NullDoc}
         ELSE dbFilter(store, [q \in {cfg.key} |-> c.arg])
    [] OTHER ->
         IF dbFilter(store, [q \in {cfg.index} |-> c.arg]) = {} THEN {NullDoc}
         ELSE dbFilter(store, [q \in {cfg.index} |-> c.arg])

ReadCall(c) == IF c.op \in {"update", "read"} THEN "read" ELSE "find"

\* read / readByKey / readByIndex inside an update, then _readDoc
UpdateRead(p) ==
  LET c == calls[p] IN
  /\ c.pc = "u_read"
  /\ \E d \in ReadCandidates(c) :
       calls' = [calls EXCEPT ![p] =
         IF d = NullDoc THEN Reject(Logged(c, ReadCall(c)), "Document not found")
         ELSE [Logged(c, ReadCall(c)) EXCEPT !.pc = "u_write", !.cur = mapOrSelf(cfg.out, d)]]
  /\ UNCHANGED <<dbApi, mgrs, tables, last, cfg, inited, store, nextId, created, removed, orphaned, gone>>

\* _updateDoc(doc, updates): merge, validate, strip, clean, api.update(id, doc)
UpdateWrite(p) ==
  LET c == calls[p]
      merged == MergeUpdates(c.cur, mapOrSelf(cfg.in, c.input))
      payload == UpdatePayload(c.cur, c.input)
  IN
  /\ c.pc = "u_write"
  /\ IF ~isValid(merged)
       THEN /\ calls' = [calls EXCEPT ![p] = Reject(c, "Updated document is invalid")]
            /\ store' = store
       ELSE IF ~Has(merged, IdProp)
       THEN /\ calls' = [calls EXCEPT ![p] =
                 Reject([Logged(c, "update") EXCEPT !.doc = payload], "ReqlDriverError")]
            /\ store' = store
       ELSE /\ calls' = [calls EXCEPT ![p] =
                 [Logged(c, "update") EXCEPT
                    !.pc = "u_readback", !.doc = payload, !.target = merged[IdProp]]]
            /\ store' = dbUpdate(store, merged[IdProp], payload)
  /\ UNCHANGED <<dbApi, mgrs, tables, last, cfg, inited, nextId, created, removed, orphaned, gone>>

\* api.update: that.read(id), then _readDoc
UpdateReadback(p) ==
  LET c == calls[p]
      d == dbGet(store, c.target)
  IN
  /\ c.pc = "u_readback"
  /\ calls' = [calls EXCEPT ![p] =
       IF d = NullDoc THEN Reject(Logged(c, "read"), "Document not found")
       ELSE Resolve(Logged(c, "read"), mapOrSelf(cfg.out, d))]
  /\ UNCHANGED <<dbApi, mgrs, tables, last, cfg, inited, store, nextId, created, removed, orphaned, gone>>

\* delete(id): api.delete(id) is issued at once
BeginDelete(p, id) ==
  /\ AllIdle
  /\ calls' = [calls EXCEPT ![p] = Start("delete", "d_delete", NullDoc, id, NullDoc)]
  /\ UNCHANGED <<dbApi, mgrs, tables, last, cfg, inited, store, nextId, created, removed, orphaned, gone>>

\* the id handed to delete(id): the argument, or the id of the document a
\* deleteByKey / deleteByIndex read
DeleteTarget(c) == IF c.op = "delete" THEN c.arg ELSE c.target

\* api.delete: get(id).delete(), deleted > 0, else 'Document not found'
DeleteRun(p) ==
  LET c == calls[p] IN
  /\ c.pc = "d_delete"
  /\ store' = dbDelete(store, DeleteTarget(c))
  /\ removed' = (removed \/ dbGet(store, DeleteTarget(c)) # NullDoc)
  /\ calls' = [calls EXCEPT ![p] =
       IF dbGet(store, DeleteTarget(c)) = NullDoc THEN Reject(Logged(c, "delete"), "Document not found")
       ELSE Resolve(Logged(c, "delete"), NullDoc)]
  /\ gone' = IF dbGet(store, DeleteTarget(c)) # NullDoc THEN gone \cup {DeleteTarget(c)} ELSE gone
  /\ UNCHANGED <<dbApi, mgrs, tables, last, cfg, inited, nextId, created, orphaned>>

\* read(id): api.read(id) is issued at once
BeginRead(p, id) ==
  /\ AllIdle
  /\ calls' = [calls EXCEPT ![p] = Start("read", "r_read", NullDoc, id, NullDoc)]
  /\ UNCHANGED <<dbApi, mgrs, tables, last, cfg, inited, store, nextId, created, removed, orphaned, gone>>

\* readByKey(key): rejects without a key property or with a falsy key
BeginReadByKey(p, key) ==
  /\ AllIdle
  /\ calls' = [calls EXCEPT ![p] =
       IF cfg.key = None \/ key = 0
         THEN Reject(Start("readByKey", "idle", NullDoc, key, NullDoc), "No unique key specified")
         ELSE Start("readByKey", "r_read", NullDoc, key, NullDoc)]
  /\ UNCHANGED <<dbApi, mgrs, tables, last, cfg, inited, store, nextId, created, removed, orphaned, gone>>

\* readByIndex(index): rejects when _propIndex is null
BeginReadByIndex(p, index) ==
  /\ AllIdle
  /\ calls' = [calls EXCEPT ![p] =
       IF ~propIndexOk(index)
         THEN Reject(Start("readByIndex", "idle", NullDoc, index, NullDoc),
                     "No auto-indexing key specified")
         ELSE Start("readByIndex", "r_read", NullDoc, index, NullDoc)]
  /\ UNCHANGED <<dbApi, mgrs, tables, last, cfg, inited, store, nextId, created, removed, orphaned, gone>>

\* api.read / api.find settles, then _readDoc
ReadRun(p) ==
  LET c == calls[p] IN
  /\ c.pc = "r_read"
  /\ \E d \in ReadCandidates(c) :
       calls' = [calls EXCEPT ![p] =
         IF d = NullDoc THEN Reject(Logged(c, ReadCall(c)), "Document not found")
         ELSE Resolve([Logged(c, ReadCall(c)) EXCEPT !.cur = d], mapOrSelf(cfg.out, d))]
  /\ UNCHANGED <<dbApi, mgrs, tables, last, cfg, inited, store, nextId, created, removed, orphaned, gone>>

\* find(props): api.find(props || {}) is issued at once
BeginFind(p, props) ==
  /\ AllIdle
  /\ calls' = [calls EXCEPT ![p] = Start("find", "f_find", props, 0, NullDoc)]
  /\ UNCHANGED <<dbApi, mgrs, tables, last, cfg, inited, store, nextId, created, removed, orphaned, gone>>

\* readAll(): this.find()
BeginReadAll(p) ==
  /\ AllIdle
  /\ calls' = [calls EXCEPT ![p] = Start("readAll", "f_find", EmptyDoc, 0, NullDoc)]
  /\ UNCHANGED <<dbApi, mgrs, tables, last, cfg, inited, store, nextId, created, removed, orphaned, gone>>

\* api.find settles: docs.map(this._out_map)
FindRun(p) ==
  LET c == calls[p] IN
  /\ c.pc = "f_find"
  /\ calls' = [calls EXCEPT ![p] =
       [Resolve(Logged(c, "find"), NullDoc) EXCEPT
          !.docs = {mapOrSelf(cfg.out, d) : d \in dbFilter(store, c.input)}]]
  /\ UNCHANGED <<dbApi, mgrs, tables, last, cfg, inited, store, nextId, created, removed, orphaned, gone>>

\* deleteByKey(key): rejects without a key property or with a falsy key
BeginDeleteByKey(p, key) ==
  /\ AllIdle
  /\ calls' = [calls EXCEPT ![p] =
       IF cfg.key = None \/ key = 0
         THEN Reject(Start("deleteByKey", "idle", NullDoc, key, NullDoc), "No unique key specified")
         ELSE Start("deleteByKey", "dk_read", NullDoc, key, NullDoc)]
  /\ UNCHANGED <<dbApi, mgrs, tables, last, cfg, inited, store, nextId, created, removed, orphaned, gone>>

\* deleteByIndex(index): readByIndex rejects when _propIndex is null
BeginDeleteByIndex(p, index) ==
  /\ AllIdle
  /\ calls' = [calls EXCEPT ![p] =
       IF ~propIndexOk(index)
         THEN Reject(Start("deleteByIndex", "idle", NullDoc, index, NullDoc),
                     "No auto-indexing key specified")
         ELSE Start("deleteByIndex", "dk_read", NullDoc, index, NullDoc)]
  /\ UNCHANGED <<dbApi, mgrs, tables, last, cfg, inited, store, nextId, created, removed, orphaned, gone>>

\* readByKey / readByIndex inside a delete, then this.delete(doc[id]); a
\* document whose id the out map removed makes table.get(undefined) throw
DeleteRead(p) ==
  LET c == calls[p] IN
  /\ c.pc = "dk_read"
  /\ \E d \in ReadCandidates(c) :
       calls' = [calls EXCEPT ![p] =
         IF d = NullDoc THEN Reject(Logged(c, "find"), "Document not found")
         ELSE IF ~Has(mapOrSelf(cfg.out, d), IdProp)
           THEN Reject([Logged(Logged(c, "find"), "delete") EXCEPT !.cur = mapOrSelf(cfg.out, d)],
                       "ReqlDriverError")
         ELSE [Logged(c, "find") EXCEPT !.pc = "d_delete", !.cur = mapOrSelf(cfg.out, d),
                                        !.target = mapOrSelf(cfg.out, d)[IdProp]]]
  /\ UNCHANGED <<dbApi, mgrs, tables, last, cfg, inited, store, nextId, created, removed, orphaned, gone>>

\* the caller takes the settled result
Return(p) ==
  /\ calls[p].pc = "done"
  /\ calls' = [calls EXCEPT ![p] = Idle]
  /\ UNCHANGED <<dbApi, mgrs, tables, last, cfg, inited, store, nextId, created, removed, orphaned, gone>>

Next ==
  \/ InitResolve
  \/ \E d \in CreateDocs : BeginCreate(1, d)
  \/ \E p \in Procs : CreateCheck(p)
  \/ \E p \in Procs : CreateAlloc(p)
  \/ \E p \in Procs : CreateInsert(p)
  \/ \E p \in Procs : CreateReadback(p)
  \/ \E id \in IdArgs, u \in UpdateDocs : BeginUpdate(1, id, u)
  \/ \E k \in KeyArgs, u \in UpdateDocs : BeginUpdateByKey(1, k, u)
  \/ \E i \in IndexArgs, u \in UpdateDocs : BeginUpdateByIndex(1, i, u)
  \/ \E p \in Procs : UpdateRead(p)
  \/ \E p \in Procs : UpdateWrite(p)
  \/ \E p \in Procs : UpdateReadback(p)
  \/ \E id \in IdArgs : BeginDelete(1, id)
  \/ \E p \in Procs : DeleteRun(p)
  \/ \E id \in IdArgs : BeginRead(1, id)
  \/ \E k \in KeyArgs : BeginReadByKey(1, k)
  \/ \E i \in IndexArgs : BeginReadByIndex(1, i)
  \/ \E p \in Procs : ReadRun(p)
  \/ \E f \in FindArgs : BeginFind(1, f)
  \/ BeginReadAll(1)
  \/ \E p \in Procs : FindRun(p)
  \/ \E k \in KeyArgs : BeginDeleteByKey(1, k)
  \/ \E i \in IndexArgs : BeginDeleteByIndex(1, i)
  \/ \E p \in Procs : DeleteRead(p)
  \/ \E p \in Procs : Return(p)

Spec == Init /\ [][Next]_vars

\* an adapter call of an invocation in flight settles and the callback
\* chained on it runs
AdapterSettles ==
  \E p \in Procs :
    \/ CreateCheck(p) \/ CreateAlloc(p) \/ CreateInsert(p) \/ CreateReadback(p)
    \/ UpdateRead(p) \/ UpdateWrite(p) \/ UpdateReadback(p)
    \/ DeleteRead(p) \/ DeleteRun(p)
    \/ ReadRun(p) \/ FindRun(p)

\* every adapter call eventually settles, init() included
SpecLive == Init /\ [][Next]_vars /\ WF_vars(InitResolve) /\ WF_vars(AdapterSettles)

\* ---------------------------------------------- several managers, one process
\* that._dbApi[fn] = that._dbApi[fn].bind(that) on the shared dbType.api
\* object: binding a function that is already bound keeps its first this
BoundTo(bound, m) == IF bound = 0 THEN m ELSE bound

\* the record of an adapter call made by manager m: the function runs with
\* this = the manager it is bound to and reads this._db, this._key, this._index
AdapterCall(m, fn, bound, ms) ==
  [by |-> m, fn |-> fn, db |-> ms[bound].db, key |-> ms[bound].key,
   index |-> ms[bound].index]

\* new Rudiment(opts): binds the adapter functions, then this._dbApi.init()
Construct(o) ==
  /\ Len(mgrs) < MaxManagers
  /\ mgrs' = Append(mgrs, o)
  /\ dbApi' = BoundTo(dbApi, Len(mgrs) + 1)
  /\ last' = AdapterCall(Len(mgrs) + 1, "init", dbApi', mgrs')
  /\ UNCHANGED <<tables, cfg, inited, store, nextId, calls, created, removed, orphaned, gone>>

\* manager m reaches api.create(doc): this._db.insert(doc)
MgrInsert(m, d) ==
  LET t == mgrs[dbApi].db IN
  /\ m \in 1..Len(mgrs)
  /\ Cardinality(tables["t1"]) + Cardinality(tables["t2"]) < MaxCreates
  /\ tables' = [tables EXCEPT ![t] =
       @ \cup {With(d, IdProp, 1 + Cardinality({e \in @ : TRUE}))}]
  /\ last' = AdapterCall(m, "create", dbApi, mgrs)
  /\ UNCHANGED <<dbApi, mgrs, cfg, inited, store, nextId, calls, created, removed, orphaned, gone>>

\* manager m reaches api.find(props): this._db.filter(props)
MgrFind(m) ==
  /\ m \in 1..Len(mgrs)
  /\ last' = AdapterCall(m, "find", dbApi, mgrs)
  /\ UNCHANGED <<dbApi, mgrs, tables, cfg, inited, store, nextId, calls, created, removed,
                 orphaned, gone>>

\* manager m reaches api.delete(id): this._db.get(id).delete()
MgrDelete(m, id) ==
  LET t == mgrs[dbApi].db IN
  /\ m \in 1..Len(mgrs)
  /\ tables' = [tables EXCEPT ![t] = dbDelete(@, id)]
  /\ last' = AdapterCall(m, "delete", dbApi, mgrs)
  /\ UNCHANGED <<dbApi, mgrs, cfg, inited, store, nextId, calls, created, removed, orphaned, gone>>

\* no manager is constructed yet; the variables of the single manager rest
InitTwo == Init /\ cfg.key = None /\ cfg.index = None

NextTwo ==
  \/ \E o \in ManagerOpts : Construct(o)
  \/ \E m \in 1..MaxManagers, d \in ManagerDocs : MgrInsert(m, d)
  \/ \E m \in 1..MaxManagers : MgrFind(m)
  \/ \E m \in 1..MaxManagers, id \in 1..MaxCreates : MgrDelete(m, id)

SpecTwo == InitTwo /\ [][NextTwo]_vars

\* ------------------------------------------------------------ REST bridge
\* request methods of the routes that hand an operation to rest()
Methods == {"GET", "POST", "PUT", "DELETE"}

\* rest(operation, res): the status codes of the responses it ends, in the
\* order it ends them.  The GET branch of the error handler does not return,
\* so it goes on to res.status(500).end().
RestStatus(method, outcome) ==
  IF outcome = "resolved" THEN (IF method = "POST" THEN <<201>> ELSE <<200>>)
  ELSE IF method \in {"POST", "PUT"} THEN <<409>>
  ELSE IF method = "GET" THEN <<404, 500>>
  ELSE <<500>>

\* rest(operation, res) on the settled operation of invocation p, for a
\* request with method m
Rest(p, m) ==
  LET c == calls[p] IN
  /\ c.pc = "done"
  /\ c.http = <<>>
  /\ calls' = [calls EXCEPT ![p] =
       [c EXCEPT !.method = m, !.http = RestStatus(m, c.outcome)]]
  /\ UNCHANGED <<dbApi, mgrs, tables, last, cfg, inited, store, nextId, created, removed, orphaned, gone>>

NextRest ==
  \/ Next
  \/ \E p \in Procs, m \in Methods : Rest(p, m)

SpecRest == Init /\ [][NextRest]_vars

\* ------------------------------------------------- overlapping invocations
\* create(doc) called while other invocations are in flight
BeginCreateConc(p, d) ==
  /\ calls[p].pc = "idle"
  /\ \A q \in Procs : q < p => calls[q].pc # "idle"
  /\ nextId + Cardinality({q \in Procs : calls[q].pc # "idle"}) <= MaxCreates
  /\ Has(d, IdProp) => d[IdProp] = ForeignId \/ d[IdProp] < nextId
  /\ calls' = [calls EXCEPT ![p] = Start("create", "c_check", d, 0, mapOrSelf(cfg.in, d))]
  /\ UNCHANGED <<dbApi, mgrs, tables, last, cfg, inited, store, nextId, created, removed, orphaned, gone>>

NextConc ==
  \/ InitResolve
  \/ \E p \in Procs, d \in CreateDocs : BeginCreateConc(p, d)
  \/ \E p \in Procs : CreateCheck(p)
  \/ \E p \in Procs : CreateAlloc(p)
  \/ \E p \in Procs : CreateInsert(p)
  \/ \E p \in Procs : CreateReadback(p)
  \/ \E p \in Procs : Return(p)

SpecConc == Init /\ [][NextConc]_vars

\* --------------------------------------------------- overlapping updates
\* the document of a table that is not empty when the manager is constructed
StoredDoc == [id |-> 1, k |-> 2, a |-> 1, x |-> 1, uid |-> 0]

\* the two invocation slots of a pair of overlapping updates
Pair == {1, 2}

\* updates callers pass to overlapping updates: each names one property
ConcUpdateDocs == {[a |-> 2], [x |-> 2]}

\* a manager constructed on a table that holds StoredDoc
InitUpd ==
  /\ cfg \in Configs
  /\ inited = FALSE
  /\ store = {StoredDoc}
  /\ nextId = 2
  /\ calls = [p \in Procs |-> Idle]
  /\ created = <<>>
  /\ removed = FALSE
  /\ orphaned = FALSE
  /\ gone = {}
  /\ mgrs = <<>>
  /\ dbApi = 0
  /\ tables = [t \in TableNames |-> {}]
  /\ last = NoCall

\* update(id, updates) called while other invocations are in flight
BeginUpdateConc(p, id, u) ==
  /\ calls[p].pc = "idle"
  /\ \A q \in Procs : q < p => calls[q].pc # "idle"
  /\ calls' = [calls EXCEPT ![p] = Start("update", "u_read", u, id, NullDoc)]
  /\ UNCHANGED <<dbApi, mgrs, tables, last, cfg, inited, store, nextId, created, removed, orphaned, gone>>

NextUpd ==
  \/ InitResolve
  \/ \E p \in Pair, id \in IdArgs, u \in ConcUpdateDocs : BeginUpdateConc(p, id, u)
  \/ \E p \in Procs : UpdateRead(p)
  \/ \E p \in Procs : UpdateWrite(p)
  \/ \E p \in Procs : UpdateReadback(p)
  \/ \E p \in Procs : Return(p)

SpecUpd == InitUpd /\ [][NextUpd]_vars

\* ------------------------------------------------------------ vocabulary
UpdateOps == {"update", "updateByKey", "updateByIndex"}

\* the document create validates and checks: the caller's document after opts.in
Mapped(c) == mapOrSelf(cfg.in, c.input)

\* some predicate of the schema accepts doc
SomePredicate(doc) == \E i \in 1..Len(cfg.schema) : ApplyPred(cfg.schema[i], doc)

\* a stored document of s has doc's value for a unique property doc defines
Collides(doc, s) ==
  \E d \in s : \E u \in UniqSet : Has(d, u) /\ Has(doc, u) /\ d[u] = doc[u]

Increasing(sq) == \A i, j \in 1..Len(sq) : i < j => sq[i] < sq[j]

\* ------------------------------------------------------------------ claims

\* C1: with zero schema predicates isValid(doc) is true for every document.
\* Stated on the documents create validates.
C1_NoSchemaEveryDocValid ==
  cfg.schema = <<>> =>
    \A p \in Procs : calls[p].op = "create" => isValid(calls[p].doc)

\* C2: with a non-empty predicate sequence, isValid(doc) is true iff at least
\* one predicate accepts doc, for the document a create validates and for the
\* merged document an update validates; deciding validity calls no adapter
\* operation (a create that found its document invalid has an empty call log).
C2_ValidIffSomePredicate ==
  Len(cfg.schema) > 0 =>
    \A p \in Procs :
      LET c == calls[p] IN
      /\ c.op = "create" => (isValid(c.doc) <=> SomePredicate(c.doc))
      /\ c.pc = "c_alloc" => (c.adm => SomePredicate(c.doc))
      /\ c.pc = "c_alloc" /\ ~SomePredicate(c.doc) => c.log = <<>>
      /\ c.pc = "u_write" =>
           LET m == MergeUpdates(c.cur, mapOrSelf(cfg.in, c.input))
           IN isValid(m) <=> SomePredicate(m)

\* C2 witness: a create passed the validity gate on its second predicate only
C2_Witness ==
  \E p \in Procs :
    /\ calls[p].pc = "c_alloc" /\ calls[p].adm
    /\ Len(cfg.schema) = 2
    /\ ~ApplyPred(cfg.schema[1], calls[p].doc)
    /\ ApplyPred(cfg.schema[2], calls[p].doc)

\* C3: without an index property, create of a valid document with no
\* unique-property collision skips key allocation, inserts and resolves.
C3_CreateWithoutIndexResolves ==
  \A p \in Procs :
    LET c == calls[p] IN
    (/\ c.op = "create" /\ c.pc = "done" /\ cfg.index = None
     /\ SomePredicate(Mapped(c)) /\ ~Collides(Mapped(c), c.before))
    => c.outcome = "resolved"

\* C4: create fails and inserts nothing whenever a stored document has the
\* same value as the document for at least one unique property (logical OR),
\* so no two stored documents ever share a value of a unique property.
C4_CollisionOnAnyUniqueRejects ==
  /\ \A p \in Procs :
       LET c == calls[p] IN
       (c.op = "create" /\ c.pc = "done" /\ Collides(Mapped(c), c.before))
       => (c.outcome = "rejected" /\ store = c.before)
  /\ \A d, e \in store : \A u \in UniqSet :
       (d # e /\ Has(d, u) /\ Has(e, u)) => d[u] # e[u]

\* C5: a create whose document fails every schema predicate fails, and issues
\* no uniqueness query, no index allocation and no insert: its call log stays
\* empty and the table keeps the contents it had when create was called.
C5_InvalidCreateTouchesNothing ==
  \A p \in Procs :
    LET c == calls[p] IN
    (c.op = "create" /\ ~SomePredicate(Mapped(c))) =>
      /\ c.log = <<>>
      /\ store = c.before
      /\ c.pc \in {"c_check", "c_alloc", "done"}
      /\ c.pc = "done" => (c.outcome = "rejected" /\ c.err = "Document not admissible")

\* C5 witness: an invalid create was rejected on a table that holds documents
C5_Witness ==
  \E p \in Procs :
    /\ calls[p].op = "create" /\ calls[p].pc = "done"
    /\ cfg.schema # <<>> /\ ~SomePredicate(Mapped(calls[p]))
    /\ calls[p].outcome = "rejected" /\ store # {}

\* C6: with an index property, successful creates on an empty table with
\* nothing else changing the table get the indexes 0, 1, 2, ... in order, and
\* the value fetched by getNextIndex is 0 on a table without indexed
\* documents and the greatest stored index plus one otherwise.
C6_SequentialIndexes ==
  cfg.index # None =>
    /\ (~removed /\ ~orphaned) => created = [i \in 1..Len(created) |-> i - 1]
    /\ \A p \in Procs :
         LET c == calls[p]
             ixs == {d[cfg.index] : d \in {e \in c.before : Has(e, cfg.index)}}
         IN c.pc = "c_insert" =>
              /\ ixs = {} => c.max = 0
              /\ ixs # {} => (c.max - 1 \in ixs /\ \A v \in ixs : v < c.max)

\* C6 witness: two creates in a row succeeded, the second one got index 1
C6_Witness ==
  /\ ~removed /\ ~orphaned
  /\ Len(created) = 2 /\ created[2] = 1

\* C7 (as claimed): an index value is never reused: every successful create
\* gets an index strictly greater than that of every earlier successful
\* create, also when documents were deleted in between.
C7_IndexNeverReused == cfg.index # None => Increasing(created)

\* C7 (amended): every successful create gets an index strictly greater than
\* the index of every document stored when it was called, and as long as no
\* document has been deleted the indexes of successive creates increase.
C7_IndexAboveStored ==
  cfg.index # None =>
    /\ ~removed => Increasing(created)
    /\ \A p \in Procs :
         LET c == calls[p] IN
         (c.op = "create" /\ c.outcome = "resolved") =>
           \A d \in c.before : Has(d, cfg.index) => d[cfg.index] < c.max

\* C7 witness: a create succeeded after a delete, on a table holding an
\* indexed document
C7_Witness ==
  \E p \in Procs :
    /\ calls[p].op = "create" /\ calls[p].outcome = "resolved"
    /\ removed
    /\ \E d \in calls[p].before : Has(d, cfg.index)

\* C8: the document persisted by a successful create carries under the index
\* property the value getNextIndex returned, not the caller's value.
C8_PersistedIndexIsAllocated ==
  \A p \in Procs :
    LET c == calls[p]
        d == dbGet(store, c.target)
    IN (c.op = "create" /\ c.outcome = "resolved") =>
         /\ cfg.index # None
         /\ d # NullDoc
         /\ Has(d, cfg.index)
         /\ d[cfg.index] = c.max

\* C8 witness: a successful create whose caller supplied another index value
C8_Witness ==
  \E p \in Procs :
    LET c == calls[p] IN
    /\ c.op = "create" /\ c.outcome = "resolved"
    /\ Has(Mapped(c), cfg.index)
    /\ Mapped(c)[cfg.index] # c.max

\* C9: update is a closed-world merge.  A property of the updates reaches the
\* adapter only if the document read has it, and a property the document read
\* does not have is not introduced into the stored document.
C9_ClosedWorldMerge ==
  \A p \in Procs :
    LET c == calls[p]
        old == dbGet(c.before, c.target)
        new == dbGet(store, c.target)
    IN (c.op \in UpdateOps /\ c.pc \in {"u_readback", "done"} /\ c.doc # NullDoc) =>
         /\ \A q \in DOMAIN mapOrSelf(cfg.in, c.input) : Has(c.doc, q) => Has(c.cur, q)
         /\ (old # NullDoc /\ new # NullDoc) =>
              \A q \in DOMAIN new : ~Has(c.cur, q) => Has(old, q)

\* C9 witness: an update naming a property the document lacks resolved, and
\* wrote another property
C9_Witness ==
  \E p \in Procs :
    LET c == calls[p]
        old == dbGet(c.before, c.target)
        new == dbGet(store, c.target)
    IN /\ c.op \in UpdateOps /\ c.outcome = "resolved"
       /\ Has(c.input, "x") /\ ~Has(c.cur, "x") /\ ~Has(new, "x")
       /\ old # new

\* C10: an update leaves the stored value of every unique property of every
\* document as it was, whatever the updates say.
C10_UniqueUnchangedByUpdate ==
  \A p \in Procs :
    LET c == calls[p] IN
    c.op \in UpdateOps =>
      /\ \A d \in c.before : \E e \in store :
           /\ e[IdProp] = d[IdProp]
           /\ \A u \in UniqSet : (Has(d, u) <=> Has(e, u)) /\ (Has(d, u) => d[u] = e[u])
      /\ Cardinality(store) = Cardinality(c.before)

\* C10 witness: an update whose updates give another value for the key
\* resolved and changed the document
C10_Witness ==
  \E p \in Procs :
    LET c == calls[p]
        old == dbGet(c.before, c.target)
    IN /\ c.op \in UpdateOps /\ c.outcome = "resolved"
       /\ old # NullDoc /\ old # dbGet(store, c.target)
       /\ cfg.key # None /\ Has(c.input, cfg.key) /\ Has(old, cfg.key)
       /\ c.input[cfg.key] # old[cfg.key]

\* ------------------------------------------------------- vocabulary, part 2
DeleteOps == {"delete", "deleteByKey", "deleteByIndex"}
ByKeyOps == {"readByKey", "updateByKey", "deleteByKey"}
ByIndexOps == {"readByIndex", "updateByIndex", "deleteByIndex"}

InLog(c, what) == \E i \in 1..Len(c.log) : c.log[i] = what

\* the document an update validates: the document read with the updates merged in
Merged(c) == MergeUpdates(c.cur, mapOrSelf(cfg.in, c.input))

\* the table s holds no document that invocation c addresses
TargetMissing(c, s) ==
  CASE c.op \in {"read", "update", "delete"} -> dbGet(s, c.arg) = NullDoc
    [] c.op \in ByKeyOps -> dbFilter(s, [q \in {cfg.key} |-> c.arg]) = {}
    [] OTHER -> dbFilter(s, [q \in {cfg.index} |-> c.arg]) = {}

\* the property invocation c addresses documents by is configured
Configured(c) ==
  /\ c.op \in ByKeyOps => cfg.key # None
  /\ c.op \in ByIndexOps => cfg.index # None

\* C11: when the merged document fails every schema predicate, update fails
\* and the adapter update is never called: the stored documents are unchanged.
C11_InvalidMergeNotPersisted ==
  \A p \in Procs :
    LET c == calls[p] IN
    (c.op \in UpdateOps /\ c.cur # NullDoc /\ ~SomePredicate(Merged(c))) =>
      /\ ~InLog(c, "update")
      /\ store = c.before
      /\ c.pc \in {"u_write", "done"}
      /\ c.pc = "done" => (c.outcome = "rejected" /\ c.err = "Updated document is invalid")

\* C11 witness: an update that would make a valid stored document invalid
\* was rejected
C11_Witness ==
  \E p \in Procs :
    LET c == calls[p] IN
    /\ c.op \in UpdateOps /\ c.pc = "done" /\ c.cur # NullDoc
    /\ SomePredicate(c.cur) /\ ~SomePredicate(Merged(c))
    /\ c.err = "Updated document is invalid"

\* C12: update, updateByKey and updateByIndex on a target that does not exist
\* fail with 'Document not found' and write nothing.
C12_MissingTargetNotFound ==
  \A p \in Procs :
    LET c == calls[p] IN
    (c.op \in UpdateOps /\ c.pc = "done" /\ Configured(c) /\ TargetMissing(c, c.before)) =>
      /\ c.outcome = "rejected" /\ c.err = "Document not found"
      /\ ~InLog(c, "update")
      /\ store = c.before

\* C13: after delete(id) succeeded and until a document with that id is
\* inserted again, the table has no document with that id: read(id) fails
\* with 'Document not found' and find / readAll return only stored documents.
C13_DeletedNotRead ==
  /\ \A id \in gone : dbGet(store, id) = NullDoc
  /\ \A p \in Procs :
       LET c == calls[p] IN
       /\ (c.op = "read" /\ c.pc = "done" /\ c.arg \in gone) =>
            (c.outcome = "rejected" /\ c.err = "Document not found")
       /\ (c.op \in {"find", "readAll"} /\ c.pc = "done") =>
            c.docs \subseteq {mapOrSelf(cfg.out, d) : d \in {e \in store : e[IdProp] \notin gone}}

\* C13 witness: a read of a deleted id was rejected while the table still
\* holds another document
C13_Witness ==
  \E p \in Procs :
    /\ calls[p].op = "read" /\ calls[p].pc = "done"
    /\ calls[p].arg \in gone
    /\ calls[p].outcome = "rejected"
    /\ store # {}

\* C14: delete(id) removes the document with that id and no other; without
\* such a document it fails with 'Document not found' and the table is
\* unchanged.  deleteByKey / deleteByIndex whose read finds nothing fail with
\* 'Document not found' and delete nothing; when they resolve, exactly one
\* document matching the argument is gone.
C14_DeleteExactlyTarget ==
  \A p \in Procs :
    LET c == calls[p] IN
    /\ (c.op = "delete" /\ c.pc = "done") =>
         IF dbGet(c.before, c.arg) = NullDoc
           THEN c.outcome = "rejected" /\ c.err = "Document not found" /\ store = c.before
           ELSE c.outcome = "resolved" /\ store = c.before \ {dbGet(c.before, c.arg)}
    /\ (c.op \in {"deleteByKey", "deleteByIndex"} /\ c.pc = "done" /\ InLog(c, "find")) =>
         /\ c.cur = NullDoc =>
              /\ c.outcome = "rejected" /\ c.err = "Document not found"
              /\ ~InLog(c, "delete")
              /\ store = c.before
         /\ c.outcome = "resolved" =>
              \E d \in c.before :
                /\ ~TargetMissing(c, {d})
                /\ store = c.before \ {d}
         /\ c.outcome = "rejected" => store = c.before

\* C14 witness: a delete resolved and left the other stored document in place
C14_Witness ==
  \E p \in Procs :
    /\ calls[p].op \in DeleteOps /\ calls[p].outcome = "resolved"
    /\ Cardinality(calls[p].before) = 2
    /\ Cardinality(store) = 1

\* a document without the backend-assigned identity and the index property
ModIdIndex(d) == Without(d, {IdProp, cfg.index})

\* C15 (as claimed): for every successful create, read(create(doc).id)
\* returns a document equal to out(clean(in(doc))) on all properties other
\* than identity and index, and create resolved with that same document.
C15_RoundTrip ==
  \A p \in Procs :
    LET c == calls[p] IN
    (c.op = "create" /\ c.outcome = "resolved") =>
      /\ Has(c.value, IdProp)
      /\ dbGet(store, c.value[IdProp]) # NullDoc
      /\ mapOrSelf(cfg.out, dbGet(store, c.value[IdProp])) = c.value
      /\ ModIdIndex(c.value) = ModIdIndex(mapOrSelf(cfg.out, clean(Mapped(c))))

\* C15 (amended): for every successful create, the stored document equals
\* clean(in(doc)) on all properties other than identity and index, create
\* resolves with out of that stored document, and a read of the stored
\* document's identity resolves with out of the stored document as well.
C15_RoundTripByStoredId ==
  \A p \in Procs :
    LET c == calls[p]
        d == dbGet(store, c.target)
    IN
    /\ (c.op = "create" /\ c.outcome = "resolved") =>
         /\ d # NullDoc
         /\ ModIdIndex(d) = ModIdIndex(clean(Mapped(c)))
         /\ c.value = mapOrSelf(cfg.out, d)
    /\ (c.op = "read" /\ c.outcome = "resolved") =>
         /\ dbGet(store, c.arg) # NullDoc
         /\ c.value = mapOrSelf(cfg.out, dbGet(store, c.arg))

\* C15 witness: a create whose document the in map and the whitelist both
\* changed has resolved
C15_Witness ==
  \E p \in Procs :
    LET c == calls[p] IN
    /\ c.op = "create" /\ c.outcome = "resolved"
    /\ Mapped(c) # c.input
    /\ clean(Mapped(c)) # Mapped(c)

\* the whitelist as a set
Whitelist == SeqToSet(cfg.props)

\* the documents clean is applied to: the mapped document of a create, the
\* merged and stripped document of an update
CleanedDocs ==
  {Mapped(calls[p]) : p \in {q \in Procs : calls[q].op = "create"}}
  \cup {StripUniq(Merged(calls[p])) :
          p \in {q \in Procs : calls[q].op \in UpdateOps /\ calls[q].cur # NullDoc}}

\* C16: clean is idempotent, with or without a whitelist.
C16_CleanIdempotent == \A d \in CleanedDocs : clean(clean(d)) = clean(d)

\* C16 witness: a create has cleaned a document with two extraneous properties
C16_Witness ==
  \E p \in Procs :
    /\ calls[p].op = "create" /\ calls[p].pc = "c_insert"
    /\ cfg.props # NoProps
    /\ Cardinality((DOMAIN Mapped(calls[p])) \ Whitelist) >= 2

\* C17: with a whitelist, clean(doc) has exactly the whitelisted properties
\* doc owns, each with doc's value; without one, clean(doc) is doc.
C17_CleanCopiesIfPresent ==
  \A d \in CleanedDocs :
    IF cfg.props = NoProps THEN clean(d) = d
    ELSE /\ DOMAIN clean(d) = (DOMAIN d) \cap Whitelist
         /\ \A q \in DOMAIN clean(d) : clean(d)[q] = d[q]

\* C17 witness: a create has cleaned a document that lacks a whitelisted
\* property and owns a property outside the whitelist
C17_Witness ==
  \E p \in Procs :
    /\ calls[p].op = "create" /\ calls[p].pc = "c_insert"
    /\ cfg.props # NoProps
    /\ Whitelist \ (DOMAIN Mapped(calls[p])) # {}
    /\ (DOMAIN Mapped(calls[p])) \ Whitelist # {}

\* C18 (as claimed): with a whitelist, every property create or update hands
\* to the adapter's insert / update is whitelisted, the index property included.
C18_OnlyWhitelistWritten ==
  cfg.props # NoProps =>
    \A p \in Procs :
      LET c == calls[p] IN
      (InLog(c, "insert") \/ InLog(c, "update")) => (DOMAIN c.doc) \subseteq Whitelist

\* C18 (amended): with a whitelist, every property update hands to the
\* adapter is whitelisted, and every property create hands to the adapter is
\* whitelisted or is the index property, which create always writes.
C18_WhitelistPlusIndexWritten ==
  cfg.props # NoProps =>
    /\ \A p \in Procs :
         LET c == calls[p] IN
         /\ InLog(c, "update") => (DOMAIN c.doc) \subseteq Whitelist
         /\ InLog(c, "insert") =>
              /\ (DOMAIN c.doc) \subseteq Whitelist \cup {cfg.index}
              /\ cfg.index # None => Has(c.doc, cfg.index)
    /\ \A d \in store : (DOMAIN d) \subseteq Whitelist \cup {cfg.index, IdProp}

\* C18 witness: a create inserted a document whose index property is outside
\* the whitelist, after dropping another property
C18_Witness ==
  \E p \in Procs :
    LET c == calls[p] IN
    /\ cfg.props # NoProps /\ cfg.index \notin Whitelist
    /\ InLog(c, "insert") /\ Has(c.doc, cfg.index)
    /\ (DOMAIN Mapped(c)) \ (Whitelist \cup {cfg.index}) # {}

\* C19: the unique properties are never empty and contain the native
\* identity, the key when set, the index when set and every name of the uniq
\* option; no operation changes the configuration they are built from.
C19_UniqProperties ==
  /\ [](/\ UniqSet # {}
        /\ IdProp \in UniqSet
        /\ cfg.key # None => cfg.key \in UniqSet
        /\ cfg.index # None => cfg.index \in UniqSet
        /\ SeqToSet(cfg.uniq) \subseteq UniqSet
        /\ None \notin UniqSet)
  /\ [][cfg' = cfg]_vars

\* C19 witness: a resource with a uniq option and no key has stored a document
C19_Witness == cfg.uniq # <<>> /\ cfg.key = None /\ store # {}

\* C20: the ByKey operations without a key property and the ByIndex
\* operations without an index property are rejected with the "No ...
\* specified" error and make no adapter call.
C20_UnconfiguredRejected ==
  \A p \in Procs :
    LET c == calls[p] IN
    /\ (c.op \in ByKeyOps /\ cfg.key = None) =>
         /\ c.pc = "done" /\ c.outcome = "rejected"
         /\ c.err = "No unique key specified"
         /\ c.log = <<>> /\ store = c.before
    /\ (c.op \in ByIndexOps /\ cfg.index = None) =>
         /\ c.pc = "done" /\ c.outcome = "rejected"
         /\ c.err = "No auto-indexing key specified"
         /\ c.log = <<>> /\ store = c.before

\* C20 witness: a ByKey operation with a usable argument was rejected on a
\* resource without a key property that holds documents
C20_Witness ==
  \E p \in Procs :
    /\ calls[p].op \in ByKeyOps /\ cfg.key = None
    /\ calls[p].arg # 0
    /\ calls[p].pc = "done"
    /\ store # {}

\* C20 second case: a ByIndex operation with a numeric argument was rejected
\* on a resource without an index property
C20_IndexCase ==
  \E p \in Procs :
    /\ calls[p].op \in ByIndexOps /\ cfg.index = None
    /\ calls[p].arg # NaNArg
    /\ calls[p].pc = "done"

\* ---------------------------------------------------- claims, third part

ReadByOps == {"readByKey", "readByIndex"}

\* C21: on a resource with the key / index property configured, readByKey(k)
\* and readByIndex(i) fail with 'Document not found' for every argument that
\* matches no stored document, an empty or zero key and a non-numeric index
\* included, and the store is left as it was.
C21_NoMatchIsNotFound ==
  \A p \in Procs :
    LET c == calls[p] IN
    (c.op \in ReadByOps /\ c.pc = "done" /\ Configured(c) /\ TargetMissing(c, c.before)) =>
      /\ c.outcome = "rejected" /\ c.err = "Document not found"
      /\ store = c.before

\* C22 as stated: no create, read, find, update or delete issues an adapter
\* call before the init() started by construction has resolved.
C22_NoCallBeforeInit ==
  ~inited => \A p \in Procs : calls[p].log = <<>>

\* C22: no create issues an adapter call before the init() started by
\* construction has resolved: until then a create waits in front of its
\* admissibility check and the store is as the create found it.
C22_CreateWaitsForInit ==
  ~inited =>
    \A p \in Procs :
      LET c == calls[p] IN
      c.op = "create" => c.pc = "c_check" /\ c.log = <<>> /\ store = c.before

\* init() has not resolved and a create is waiting for it
C22_Witness ==
  /\ ~inited
  /\ \E p \in Procs : calls[p].op = "create" /\ calls[p].pc = "c_check"

\* the adapter calls of one create, in the order of its promise chain
CreateOrder == <<"isAdmissible", "getNextIndex", "insert", "read">>

IsPrefix(a, b) == Len(a) <= Len(b) /\ \A i \in 1..Len(a) : a[i] = b[i]

\* C23: within one create the steps run strictly in the order in-map,
\* validity check, uniqueness query, clean, index allocation, insert; each
\* starts only after the one before it resolved, and insert is issued at most
\* once.
C23_CreateStepsInOrder ==
  \A p \in Procs :
    LET c == calls[p]
        order == IF AdmissibleQueries(Mapped(c)) THEN CreateOrder ELSE Tail(CreateOrder)
    IN
    c.op = "create" =>
      /\ IsPrefix(c.log, order)
      /\ c.pc = "c_check" => c.log = <<>> /\ c.doc = Mapped(c)
      /\ c.pc = "c_alloc" => ~InLog(c, "getNextIndex") /\ c.doc = Mapped(c)
      /\ InLog(c, "isAdmissible") => SomePredicate(Mapped(c))
      /\ InLog(c, "getNextIndex") => c.adm /\ c.pc # "c_alloc"
      /\ c.pc = "c_insert" =>
           /\ c.log[Len(c.log)] = "getNextIndex"
           /\ c.doc = Without(clean(Mapped(c)), {cfg.index})
           /\ c.max \in Nat
      /\ InLog(c, "insert") =>
           /\ c.pc \in {"c_readback", "done"}
           /\ c.max \in Nat
           /\ c.doc = With(Without(clean(Mapped(c)), {cfg.index}), cfg.index, c.max)

\* a create ran all its steps, the uniqueness query included, and resolved
C23_Witness ==
  \E p \in Procs :
    /\ calls[p].op = "create" /\ calls[p].outcome = "resolved"
    /\ calls[p].log = CreateOrder

\* the stored documents of s that carry the unique-property values of doc
UniqMatches(doc, s) ==
  {d \in s : \A u \in DOMAIN pick(doc, Uniq(cfg)) : Has(d, u) /\ d[u] = doc[u]}

\* C24: when the uniqueness query of a create finds a match the create fails
\* fast with 'Document not admissible' and calls neither getNextIndex nor
\* insert; every insert a create issues follows, in the same invocation, a
\* passed validity check and a uniqueness check that passed or was skipped
\* because the projection on the unique properties was empty.
C24_FailFastOnMatch ==
  \A p \in Procs :
    LET c == calls[p]
        proj == pick(Mapped(c), Uniq(cfg))
    IN
    c.op = "create" =>
      /\ (InLog(c, "isAdmissible") /\ UniqMatches(Mapped(c), c.before) # {}) =>
           /\ ~InLog(c, "getNextIndex") /\ ~InLog(c, "insert")
           /\ store = c.before
           /\ c.pc = "done" => c.outcome = "rejected" /\ c.err = "Document not admissible"
      /\ InLog(c, "insert") =>
           /\ SomePredicate(Mapped(c))
           /\ \/ DOMAIN proj = {} /\ ~InLog(c, "isAdmissible")
              \/ DOMAIN proj # {} /\ c.log[1] = "isAdmissible"
                   /\ UniqMatches(Mapped(c), c.before) = {}

\* a create of a valid document was rejected because its uniqueness query
\* found a stored document
C24_Witness ==
  \E p \in Procs :
    LET c == calls[p] IN
    /\ c.op = "create" /\ c.pc = "done" /\ c.err = "Document not admissible"
    /\ SomePredicate(Mapped(c))
    /\ InLog(c, "isAdmissible")
    /\ UniqMatches(Mapped(c), c.before) # {}

\* C24 second case: a create inserted after its uniqueness check was skipped
C24_SkippedCase ==
  \E p \in Procs :
    LET c == calls[p] IN
    /\ c.op = "create" /\ InLog(c, "insert") /\ ~InLog(c, "isAdmissible")

\* the unique properties a caller's value is stored under: the index is
\* assigned by create
CallerUniq == UniqSet \ {IdProp, cfg.index}

\* invocations p and q are creates that both issued their insert for
\* documents with the same value of the unique property u
BothInserted(p, q, u) ==
  /\ p # q
  /\ calls[p].op = "create" /\ calls[q].op = "create"
  /\ InLog(calls[p], "insert") /\ InLog(calls[q], "insert")
  /\ ~Has(calls[p].doc, IdProp) /\ ~Has(calls[q].doc, IdProp)
  /\ Has(calls[p].doc, u) /\ Has(calls[q].doc, u)
  /\ calls[p].doc[u] = calls[q].doc[u]

\* two stored documents of s have the value v of property u
StoredTwice(s, u, v) ==
  \E d, e \in s : d # e /\ Has(d, u) /\ Has(e, u) /\ d[u] = v /\ e[u] = v

\* C25: the table enforces no uniqueness constraint, so when two overlapping
\* creates carry the same value of a unique property and both pass the
\* uniqueness check, both inserts are stored and both creates succeed: two
\* stored documents share the value.
C25_RacingCreatesBothStored ==
  \A p, q \in Procs : \A u \in CallerUniq :
    BothInserted(p, q, u) =>
      /\ StoredTwice(store, u, calls[p].doc[u])
      /\ calls[p].pc = "done" => calls[p].outcome = "resolved"

\* two overlapping creates with the same key value have both resolved and
\* the table holds two documents with that value
C25_Witness ==
  \E p, q \in Procs :
    /\ cfg.key # None
    /\ BothInserted(p, q, cfg.key)
    /\ calls[p].outcome = "resolved" /\ calls[q].outcome = "resolved"
    /\ calls[p].adm /\ calls[q].adm
    /\ InLog(calls[p], "isAdmissible") /\ InLog(calls[q], "isAdmissible")
    /\ StoredTwice(store, cfg.key, calls[p].doc[cfg.key])

\* invocations p and q are creates that were handed the same next index and
\* both issued their insert
SameIndexInserted(p, q) ==
  /\ p # q
  /\ calls[p].op = "create" /\ calls[q].op = "create"
  /\ InLog(calls[p], "insert") /\ InLog(calls[q], "insert")
  /\ ~Has(calls[p].doc, IdProp) /\ ~Has(calls[q].doc, IdProp)
  /\ calls[p].max = calls[q].max

\* C26: the table enforces no uniqueness constraint on the index property,
\* so when two overlapping creates are handed the same next index both
\* persist their document under it and both succeed: two stored documents
\* have the same index.
C26_RacingCreatesSameIndex ==
  \A p, q \in Procs :
    SameIndexInserted(p, q) =>
      /\ StoredTwice(store, cfg.index, calls[p].max)
      /\ calls[p].pc = "done" =>
           /\ calls[p].outcome = "resolved"
           /\ Has(calls[p].value, cfg.index) => calls[p].value[cfg.index] = calls[q].max

\* two overlapping creates have both resolved with the same index and the
\* table holds two documents with that index
C26_Witness ==
  \E p, q \in Procs :
    /\ SameIndexInserted(p, q)
    /\ calls[p].outcome = "resolved" /\ calls[q].outcome = "resolved"
    /\ calls[p].value # calls[q].value
    /\ Has(calls[p].value, cfg.index) /\ Has(calls[q].value, cfg.index)
    /\ calls[p].value[cfg.index] = calls[q].value[cfg.index]
    /\ StoredTwice(store, cfg.index, calls[p].max)

\* C27: when the adapter's create returns no document the create fails with
\* 'Document not created', an error the admissibility gate never raises (the
\* gate's 'Document not admissible' comes before any insert); a create never
\* resolves with an empty value.
C27_NoDocumentNotCreated ==
  \A p \in Procs :
    LET c == calls[p] IN
    c.op = "create" =>
      /\ c.ret = "null" =>
           /\ c.pc = "done" /\ c.outcome = "rejected"
           /\ c.err = "Document not created"
           /\ c.value = NullDoc
      /\ c.err = "Document not created" => c.ret = "null" /\ InLog(c, "insert")
      /\ c.err = "Document not admissible" => c.ret = "none" /\ ~InLog(c, "insert")
      /\ c.outcome = "resolved" => c.ret = "doc" /\ c.value # NullDoc

\* the adapter's create returned no document and the create has settled
C27_Witness ==
  \E p \in Procs :
    /\ calls[p].op = "create" /\ calls[p].ret = "null" /\ calls[p].pc = "done"

C28_ConflictCase ==
  \E p \in Procs :
    LET c == calls[p] IN
    /\ c.op = "create" /\ c.pc = "done" /\ SomePredicate(Mapped(c))
    /\ UniqMatches(Mapped(c), c.before) # {} /\ InLog(c, "isAdmissible")
    /\ c.err = "Document not admissible"

\* document d satisfies the property constraints props
Matches(d, props) == \A q \in DOMAIN props : q \in DOMAIN d /\ d[q] = props[q]

\* C29: find(props) resolves with exactly the stored documents that match
\* props, each passed through the out map, and changes nothing in the store;
\* readAll() resolves with what find({}) resolves with, every stored
\* document; read(id) resolves with the out map of the stored document with
\* that id and fails with 'Document not found' when there is none.
C29_FindAndReadReturnStored ==
  \A p \in Procs :
    LET c == calls[p] IN
    /\ (c.op = "find" /\ c.pc = "done") =>
         /\ c.outcome = "resolved" /\ store = c.before /\ c.log = <<"find">>
         /\ c.docs = {mapOrSelf(cfg.out, d) : d \in {e \in c.before : Matches(e, c.input)}}
    /\ (c.op = "readAll" /\ c.pc = "done") =>
         /\ c.outcome = "resolved" /\ store = c.before /\ c.log = <<"find">>
         /\ c.docs = {mapOrSelf(cfg.out, d) : d \in c.before}
         /\ c.docs = {mapOrSelf(cfg.out, d) : d \in {e \in c.before : Matches(e, EmptyDoc)}}
    /\ (c.op = "read" /\ c.pc = "done") =>
         /\ store = c.before /\ c.log = <<"read">>
         /\ IF \E d \in c.before : d[IdProp] = c.arg
              THEN /\ c.outcome = "resolved"
                   /\ \E d \in c.before :
                        d[IdProp] = c.arg /\ c.value = mapOrSelf(cfg.out, d)
              ELSE c.outcome = "rejected" /\ c.err = "Document not found"

\* a find with a constraint returned some stored documents and left out
\* another, through an out map that changes them
C29_Witness ==
  \E p \in Procs :
    LET c == calls[p] IN
    /\ c.op = "find" /\ c.pc = "done" /\ c.input # EmptyDoc
    /\ c.docs # {}
    /\ \E d \in store : ~Matches(d, c.input)
    /\ cfg.out # None

\* C29 second case: readAll returned two documents
C29_ReadAllCase ==
  \E p \in Procs :
    calls[p].op = "readAll" /\ calls[p].pc = "done" /\ Cardinality(calls[p].docs) = 2

\* C29 third case: read(id) resolved for a stored id
C29_ReadFoundCase ==
  \E p \in Procs :
    calls[p].op = "read" /\ calls[p].outcome = "resolved" /\ cfg.out # None

\* C29 fourth case: read(id) found no document in a table that is not empty
C29_ReadMissingCase ==
  \E p \in Procs :
    calls[p].op = "read" /\ calls[p].outcome = "rejected" /\ store # {}

\* the request method of the route that serves operation op
RouteMethod(op) ==
  CASE op = "create" -> "POST"
    [] op \in UpdateOps -> "PUT"
    [] op \in DeleteOps -> "DELETE"
    [] OTHER -> "GET"

\* C30: the REST bridge answers a read, update or delete that failed with
\* 'Document not found' with a not-found response (404) and a failed create
\* with a client-error or conflict response (400 / 409); a server-error
\* response (500) is produced only for other failures.
C30_RestMapsFailures ==
  \A p \in Procs :
    LET c == calls[p] IN
    (c.http # <<>> /\ c.method = RouteMethod(c.op) /\ c.outcome = "rejected") =>
      /\ (c.op # "create" /\ c.err = "Document not found") => c.http = <<404>>
      /\ c.op = "create" => c.http \in {<<400>>, <<409>>}
      /\ (\E i \in 1..Len(c.http) : c.http[i] = 500) =>
           c.op # "create" /\ c.err # "Document not found"

\* ---------------------------------------------------- claims, fourth part

\* C31: every adapter call made by an operation of a manager constructed
\* after another one, with a different db handle, targets that manager's own
\* db and uses its own key and index configuration, never the first
\* manager's.
C31_ManagersIndependent ==
  (last.by > 1 /\ mgrs[last.by].db # mgrs[1].db) =>
    /\ last.db = mgrs[last.by].db
    /\ last.key = mgrs[last.by].key
    /\ last.index = mgrs[last.by].index

\* the documents of s other than the one with native identity id
Others(s, id) == {d \in s : d[IdProp] # id}

\* C32: update(id, updates) writes only to the document whose native
\* identity is the id it was called with, and leaves the stored value of
\* every property of that document not named in updates as it was, whatever
\* the out map does to documents on read.
C32_UpdateWritesOnlyTarget ==
  \A p \in Procs :
    LET c == calls[p]
        old == dbGet(c.before, c.arg)
        new == dbGet(store, c.arg)
    IN
    (c.op = "update" /\ c.pc \in {"u_readback", "done"}) =>
      /\ Others(store, c.arg) = Others(c.before, c.arg)
      /\ (old = NullDoc) = (new = NullDoc)
      /\ old # NullDoc =>
           /\ \A q \in DOMAIN old : ~Has(Mapped(c), q) => Has(new, q) /\ new[q] = old[q]
           /\ \A q \in DOMAIN new : ~Has(Mapped(c), q) => Has(old, q)

\* invocations p and q are updates of the same document that name disjoint
\* sets of properties, none of them unique, and both have resolved
BothUpdated(p, q) ==
  /\ p # q
  /\ calls[p].op = "update" /\ calls[q].op = "update"
  /\ calls[p].arg = calls[q].arg
  /\ calls[p].outcome = "resolved" /\ calls[q].outcome = "resolved"
  /\ DOMAIN Mapped(calls[p]) \cap DOMAIN Mapped(calls[q]) = {}
  /\ (DOMAIN Mapped(calls[p]) \cup DOMAIN Mapped(calls[q])) \cap UniqSet = {}

\* the stored document s holds for invocation c carries every change c made:
\* the value c's updates give to each property the document had
Reflects(s, c) ==
  \A q \in DOMAIN Mapped(c) :
    Has(c.cur, q) => Has(dbGet(s, c.arg), q) /\ dbGet(s, c.arg)[q] = Mapped(c)[q]

\* C33: when two overlapping updates of the same document that change
\* disjoint non-unique properties have both resolved, the stored document
\* reflects both changes: no update is lost.
C33_NoLostUpdate ==
  \A p, q \in Procs :
    BothUpdated(p, q) => Reflects(store, calls[p]) /\ Reflects(store, calls[q])

\* The object the caller handed to create, as create leaves it.  Without an
\* in map doc = this._in_map(doc) is the caller's object, and without a
\* whitelist doc = this.clean(doc) is still that object: delete doc[index]
\* and doc[index] = max then act on it.  An in map or a whitelist makes
\* create work on a copy.
CallerDoc(c) == IF cfg.in = None /\ cfg.props = NoProps THEN c.doc ELSE c.input

\* C34: after create settles, the document object supplied by the caller has
\* the same properties and values as before the call, whether or not a
\* whitelist, an in map or an index property is configured.
C34_CallerDocUntouched ==
  \A p \in Procs :
    LET c == calls[p] IN
    (c.op = "create" /\ c.pc = "done") => CallerDoc(c) = c.input

\* C35: when a create rejects, for whatever reason, and no other operation
\* runs meanwhile, the stored documents are the same as before the create.
C35_RejectedCreateStoresNothing ==
  \A p \in Procs :
    LET c == calls[p] IN
    (c.op = "create" /\ c.outcome = "rejected") => store = c.before

\* values a caller may supply for the index property
IndexValues == {0, 5}

\* the documents that differ from doc at most in the index property
IndexVariants(doc) ==
  {Without(doc, {cfg.index})} \cup {With(doc, cfg.index, v) : v \in IndexValues}

\* C36: with an index property configured, the outcome of create does not
\* depend on the value the caller supplied for it: a create of a document
\* that differs only in that value, against the same stored documents, is
\* admitted exactly when this one is.
C36_IndexValueIrrelevant ==
  \A p \in Procs :
    LET c == calls[p] IN
    (c.op = "create" /\ c.pc # "c_check" /\ cfg.index # None) =>
      \A d \in IndexVariants(Mapped(c)) : isAdmissible(d, c.before) = c.adm

\* some invocation has been called and has not settled yet
InFlight == \E p \in Procs : calls[p].pc \notin {"idle", "done"}

\* C37: if every adapter call eventually settles, every invocation of create,
\* read, readByKey, readByIndex, find, update, updateByKey, updateByIndex,
\* delete, deleteByKey and deleteByIndex eventually settles, resolved or
\* rejected, and a settled invocation never changes its outcome.
C37_SettlesOnce ==
  /\ InFlight ~> ~InFlight
  /\ [][\A p \in Procs :
          calls[p].pc = "done" =>
            /\ calls[p].outcome \in {"resolved", "rejected"}
            /\ calls'[p] = calls[p] \/ calls'[p] = Idle]_vars

\* an invocation that made three adapter calls one after the other has settled
C37_Witness ==
  \E p \in Procs :
    /\ calls[p].pc = "done" /\ calls[p].op # "create"
    /\ Len(calls[p].log) >= 3

\* C38: for every request method and every outcome of the wrapped
\* operation, rest(operation, res) ends the response exactly once, with one
\* final status code.
C38_RestEndsOnce ==
  \A p \in Procs :
    LET c == calls[p] IN
    (c.pc = "done" /\ c.method # None) => Len(c.http) = 1

====
